---- MODULE Spec2Model ----
(***************************************************************************)
(* Model of the composio coder agent (src/coders/composio_coders/swe.py)   *)
(* and of the EditFile tool action (src/python/composio/local_tools/       *)
(* local_workspace/cmd_manager/actions/edit_cmd.py).                       *)
(*                                                                         *)
(* Python str values that are formatted or parsed character by character   *)
(* (the edit command) are sequences of one-character strings.  Python str  *)
(* values that are only compared, stored or embedded in JSON text are TLA+ *)
(* strings.                                                                *)
(***************************************************************************)
EXTENDS Integers, Sequences, FiniteSets, TLC

VARIABLES
    \* ---- CoderAgent (swe.py) ----
    pc,            \* position of the single thread of control in __init__ / run
    args,          \* CoderAgentArgs given to the constructor
    error,         \* type of the exception that ended the last handler, or "none"
    calls,         \* external calls issued by the handler in progress, in order
    llm,           \* local variable llm of run
    workspace_id,  \* local variable workspace_id of run
    current_logs,  \* self.current_logs
    agent_logs,    \* self.agent_logs, an insertion-ordered dict of references
    file,          \* content of the file self.task_output_logs, or Absent
    writes,        \* number of writes of that file by the run in progress
    steps,         \* every step_output handed to add_in_logs so far (history)
    runs,          \* number of run() invocations started so far
    \* ---- EditFile (edit_cmd.py) ----
    e_pc,          \* position of a call of EditFile.execute
    request,       \* request_data of the call
    sent,          \* commands passed to workspace.communicate by the call
    response,      \* what the call returned (or how it ended)
    ws_answer      \* what the workspace answers to a command of the call

agent_vars == <<pc, args, error, calls, llm, workspace_id, current_logs,
                agent_logs, file, writes, steps, runs>>
edit_vars == <<e_pc, request, sent, response, ws_answer>>
vars == <<agent_vars, edit_vars>>

\* Marker of a value that does not exist (a missing dict key, a missing file,
\* a parameter that a call does not take).
Absent == "<absent>"
\* Python's None.
None == "<None>"

(***************************************************************************)
(* Bounds of the model.                                                    *)
(***************************************************************************)
MaxChunks == 3     \* replacement_text is made of at most this many chunks
MaxSteps == 2      \* add_in_logs invocations explored per agent object
MaxRuns == 2       \* run() invocations explored per agent object

(***************************************************************************)
(* Text helpers: Python str as a sequence of characters.                   *)
(***************************************************************************)
Digit == <<"0", "1", "2", "3", "4", "5", "6", "7", "8", "9">>

RECURSIVE NatToStr(_)
NatToStr(n) ==
    IF n < 10 THEN <<Digit[n + 1]>>
    ELSE NatToStr(n \div 10) \o <<Digit[(n % 10) + 1]>>

\* format(int) as an f-string does it: decimal digits, a leading "-" if negative.
IntToStr(n) == IF n < 0 THEN <<"-">> \o NatToStr(-n) ELSE NatToStr(n)

\* str.split("\n"): the lines of a text (always at least one, possibly empty).
RECURSIVE SplitLines(_)
SplitLines(t) ==
    IF \A i \in 1..Len(t) : t[i] # "\n" THEN <<t>>
    ELSE LET k == CHOOSE i \in 1..Len(t) :
                      t[i] = "\n" /\ \A j \in 1..(i - 1) : t[j] # "\n"
         IN  <<SubSeq(t, 1, k - 1)>> \o SplitLines(SubSeq(t, k + 1, Len(t)))

RECURSIVE Flatten(_)
Flatten(ss) == IF ss = <<>> THEN <<>> ELSE Head(ss) \o Flatten(Tail(ss))

(***************************************************************************)
(* EditFile.execute                                                        *)
(***************************************************************************)
end_of_edit == <<"e", "n", "d", "_", "o", "f", "_", "e", "d", "i", "t">>
edit_kw == <<"e", "d", "i", "t", " ">>
heredoc_op == <<" ", "<", "<", " ">>

\* A variant of full_command that trims the replacement text.
full_command_strip(req) ==
    LET IsWs(c) == c \in {" ", "\n"}
        t == req.replacement_text
        RECURSIVE LStrip(_)
        LStrip(s) == IF s # <<>> /\ IsWs(Head(s)) THEN LStrip(Tail(s)) ELSE s
        RECURSIVE RStrip(_)
        RStrip(s) == IF s # <<>> /\ IsWs(s[Len(s)])
                     THEN RStrip(SubSeq(s, 1, Len(s) - 1)) ELSE s
    IN  edit_kw \o IntToStr(req.start_line) \o <<":">> \o IntToStr(req.end_line)
            \o heredoc_op \o end_of_edit \o <<"\n">>
            \o RStrip(LStrip(t)) \o <<"\n">> \o end_of_edit

\* The f-string of edit_cmd.py line 55.
full_command(req) ==
    edit_kw \o IntToStr(req.start_line) \o <<":">> \o IntToStr(req.end_line)
        \o heredoc_op \o end_of_edit \o <<"\n">>
        \o req.replacement_text \o <<"\n">> \o end_of_edit

\* process_output(output, return_code): the response normalizer; it passes the
\* pair through.
process_output(output, return_code) ==
    [output |-> output, return_code |-> return_code]

\* A variant of execute that reissues a rejected command once.
execute_retry(req, answer) ==
    LET cmd == full_command(req)
        po  == process_output(answer.output, answer.return_code)
    IN  [sent     |-> IF answer.return_code # 0 THEN <<cmd, cmd>> ELSE <<cmd>>,
         response |-> [result |-> "returned", output |-> po.output,
                       return_code |-> po.return_code]]

\* What one invocation of execute does, given the request and the answer the
\* workspace gives to a command: the commands it passes to
\* workspace.communicate, and the BaseResponse it returns.
execute(req, answer) ==
    LET cmd == full_command(req)
        po  == process_output(answer.output, answer.return_code)
    IN  [sent     |-> <<cmd>>,
         response |-> [result |-> "returned", output |-> po.output,
                       return_code |-> po.return_code]]

\* Inputs of execute.
TextChunks == {<<"\n">>, <<" ">>, <<"x">>, end_of_edit}
RECURSIVE ChunkSeqs(_)
ChunkSeqs(n) ==
    IF n = 0 THEN {<<>>}
    ELSE ChunkSeqs(n - 1) \cup
         {s \o <<c>> : s \in {q \in ChunkSeqs(n - 1) : Len(q) = n - 1}, c \in TextChunks}
Texts == {Flatten(s) : s \in ChunkSeqs(MaxChunks)}
LineValues == {-1, 0, 9, 10, 123}
EditFileRequests ==
    [start_line : LineValues, end_line : LineValues, replacement_text : Texts]
WorkspaceAnswers == [output : {"", "SyntaxError"}, return_code : {0, 1}]

NoRequest == [start_line |-> 0, end_line |-> 0, replacement_text |-> <<>>]
NoResponse == [result |-> "none", output |-> "", return_code |-> 0]
NoAnswer == [output |-> "", return_code |-> 0]

\* No call of execute is in progress.
IdleEdit ==
    /\ e_pc = "idle"
    /\ request = NoRequest
    /\ sent = <<>>
    /\ response = NoResponse
    /\ ws_answer = NoAnswer

\* The tool framework calls execute(request_data, authorisation_data) with a
\* validated request; ws_answer is what the workspace will answer.
InitEdit ==
    /\ e_pc = "called"
    /\ request \in EditFileRequests
    /\ ws_answer \in WorkspaceAnswers
    /\ sent = <<>>
    /\ response = NoResponse

(***************************************************************************)
(* CoderAgent: inputs                                                      *)
(***************************************************************************)
MODEL_ENV_OPENAI == "openai"
MODEL_ENV_AZURE == "azure"

\* model_env_config: a dict; a key that is not in the dict holds Absent.
ModelEnvs ==
    { [model_env |-> "openai", azure_endpoint |-> "azure-end-point", api_key |-> "test-api-key"],
      [model_env |-> "azure", azure_endpoint |-> "azure-end-point", api_key |-> "test-api-key"],
      [model_env |-> "azure", azure_endpoint |-> Absent, api_key |-> "test-api-key"],
      [model_env |-> "anthropic", azure_endpoint |-> "azure-end-point", api_key |-> "test-api-key"],
      [model_env |-> Absent, azure_endpoint |-> Absent, api_key |-> Absent] }
IssueIds == {None, "", "42"}
ArgsSet ==
    [issue_id : IssueIds, repo_name : {"org/repo"},
     base_commit_id : {"main", "shubhra/linter"}, model_env_config : ModelEnvs]
NoArgs ==
    [issue_id |-> Absent, repo_name |-> Absent, base_commit_id |-> Absent,
     model_env_config |-> [model_env |-> Absent, azure_endpoint |-> Absent,
                           api_key |-> Absent]]
WorkspaceIds == {"ws-1", "ws-2"}

\* An external call as it is recorded in calls.
Call(op) ==
    [op |-> op, workspace_id |-> Absent, repo_name |-> Absent, branch_name |-> Absent]

\* Values inside a step_output: an object is its type and its content.
Obj(type, v) == [type |-> type, v |-> v]
AgentAction(tool) == Obj("AgentAction", "{\"tool\": \"" \o tool \o "\"}")
Str(s) == Obj("str", s)
NoneObj == Obj("NoneType", None)
\* A step_output: an AgentFinish with return_values {"output": ret}, a list of
\* tuples, or something else (a str).
AgentFinish(ret) == [type |-> "AgentFinish", ret |-> ret, items |-> <<>>]
List(items) == [type |-> "list", ret |-> "", items |-> items]
OtherStep == [type |-> "str", ret |-> "", items |-> <<>>]
StepOutputs ==
    { AgentFinish("done"),
      List(<< <<AgentAction("edit"), Str("ok")>> >>),
      List(<< <<AgentAction("edit")>> >>),
      List(<< <<Str("x"), Str("ok")>> >>),
      List(<< >>),
      List(<< <<AgentAction("open"), NoneObj>>, <<AgentAction("edit"), Str("")>> >>),
      List(<< << >> >>),
      OtherStep }

(***************************************************************************)
(* CoderAgent.__init__                                                     *)
(***************************************************************************)
\* The external calls of the constructor, in order (lines 90-102).
init_calls ==
    << Call("ComposioToolSet"), Call("get_tools"), Call("Composio"),
       Call("get_entity:swe-agent"), Call("Composio"),
       Call("get_entity:SWE-Agent-Client") >>

\* A variant of __init__ that checks the issue identifier after the toolset
\* and the entities are set up.
init_check_late(a, fail_at) ==
    IF fail_at # 0
    THEN [pc |-> "ctor_failed", error |-> "ExternalError",
          calls |-> SubSeq(init_calls, 1, fail_at)]
    ELSE IF a.issue_id \in {None, ""}
    THEN [pc |-> "ctor_failed", error |-> "ValueError", calls |-> init_calls]
    ELSE [pc |-> "ready", error |-> "none", calls |-> init_calls]

\* A variant of __init__ that also validates the model environment key.
init_checks_env(a, fail_at) ==
    IF a.issue_id \in {None, ""}
    THEN [pc |-> "ctor_failed", error |-> "ValueError", calls |-> <<>>]
    ELSE IF a.model_env_config.model_env \notin {MODEL_ENV_OPENAI, MODEL_ENV_AZURE}
    THEN [pc |-> "ctor_failed", error |-> "ValueError", calls |-> <<>>]
    ELSE IF fail_at # 0
    THEN [pc |-> "ctor_failed", error |-> "ExternalError",
          calls |-> SubSeq(init_calls, 1, fail_at)]
    ELSE [pc |-> "ready", error |-> "none", calls |-> init_calls]

\* __init__(args); fail_at is the external call that raises (0: none does).
\* Python's "not issue_id" holds of None and of the empty string.
init(a, fail_at) ==
    IF a.issue_id \in {None, ""}
    THEN [pc |-> "ctor_failed", error |-> "ValueError", calls |-> <<>>]
    ELSE IF fail_at # 0
    THEN [pc |-> "ctor_failed", error |-> "ExternalError",
          calls |-> SubSeq(init_calls, 1, fail_at)]
    ELSE [pc |-> "ready", error |-> "none", calls |-> init_calls]

(***************************************************************************)
(* CoderAgent.get_llm                                                      *)
(***************************************************************************)
\* A variant of get_llm that falls back to the OpenAI client.
get_llm_fallback(model_env, ctor_ok) ==
    IF model_env.model_env = MODEL_ENV_AZURE
    THEN IF Absent \in {model_env.azure_endpoint, model_env.api_key}
         THEN [error |-> "KeyError", llm |-> Absent, calls |-> <<>>]
         ELSE [error |-> IF ctor_ok THEN "none" ELSE "ExternalError",
               llm |-> IF ctor_ok THEN "AzureChatOpenAI" ELSE Absent,
               calls |-> <<Call("AzureChatOpenAI")>>]
    ELSE [error |-> IF ctor_ok THEN "none" ELSE "ExternalError",
          llm |-> IF ctor_ok THEN "ChatOpenAI" ELSE Absent,
          calls |-> <<Call("ChatOpenAI")>>]

\* get_llm(): the error it raises ("none": it returns), the client it returns
\* and the client constructors it calls.  ctor_ok: the constructor returns.
\* dict.get gives None for a missing key, which equals neither constant;
\* self.model_env[KEY] raises KeyError for a missing key (lines 168-169).
get_llm(model_env, ctor_ok) ==
    IF model_env.model_env = MODEL_ENV_OPENAI
    THEN [error |-> IF ctor_ok THEN "none" ELSE "ExternalError",
          llm |-> IF ctor_ok THEN "ChatOpenAI" ELSE Absent,
          calls |-> <<Call("ChatOpenAI")>>]
    ELSE IF model_env.model_env = MODEL_ENV_AZURE
    THEN IF Absent \in {model_env.azure_endpoint, model_env.api_key}
         THEN [error |-> "KeyError", llm |-> Absent, calls |-> <<>>]
         ELSE [error |-> IF ctor_ok THEN "none" ELSE "ExternalError",
               llm |-> IF ctor_ok THEN "AzureChatOpenAI" ELSE Absent,
               calls |-> <<Call("AzureChatOpenAI")>>]
    ELSE [error |-> "ValueError", llm |-> Absent, calls |-> <<>>]

(***************************************************************************)
(* CoderAgent.add_in_logs                                                  *)
(***************************************************************************)
FinishEntry(ret) ==
    [agent_action |-> "agent_finish", field |-> "agent_output", value |-> ret]
ActionEntry(action_json, tool_out) ==
    [agent_action |-> action_json, field |-> "tool_output", value |-> tool_out]

\* A variant of add_in_logs that records every tuple of a list.
add_in_logs_all(logs, step) ==
    IF step.type = "AgentFinish"
    THEN [logs |-> Append(logs, FinishEntry(step.ret)), error |-> "none"]
    ELSE IF step.type = "list" /\ step.items # <<>>
    THEN IF \E i \in 1..Len(step.items) : step.items[i] = <<>>
         THEN [logs |-> logs, error |-> "IndexError"]
         ELSE LET rec == SelectSeq(step.items, LAMBDA t : t[1].type = "AgentAction")
                  Entry(t) == ActionEntry(t[1].v, IF Len(t) > 1 THEN t[2].v ELSE None)
              IN  [logs |-> logs \o [i \in 1..Len(rec) |-> Entry(rec[i])],
                   error |-> "none"]
    ELSE [logs |-> logs, error |-> "none"]

\* add_in_logs(step_output): the new current_logs and the error raised.
\* step_output[0][0] of an empty tuple raises IndexError.
add_in_logs(logs, step) ==
    LET after_finish ==
            IF step.type = "AgentFinish"
            THEN Append(logs, FinishEntry(step.ret)) ELSE logs
    IN  IF step.type = "list" /\ step.items # <<>>
        THEN LET agent_action_with_tool_out == step.items[1]
             IN  IF agent_action_with_tool_out = <<>>
                 THEN [logs |-> after_finish, error |-> "IndexError"]
                 ELSE IF agent_action_with_tool_out[1].type = "AgentAction"
                 THEN LET tool_out ==
                              IF Len(agent_action_with_tool_out) > 1
                              THEN agent_action_with_tool_out[2].v ELSE None
                      IN  [logs |-> Append(after_finish,
                                       ActionEntry(agent_action_with_tool_out[1].v,
                                                   tool_out)),
                           error |-> "none"]
                 ELSE [logs |-> after_finish, error |-> "none"]
        ELSE [logs |-> after_finish, error |-> "none"]

(***************************************************************************)
(* CoderAgent.save_history                                                 *)
(***************************************************************************)
\* json.dumps escapes the double quote and the backslash of a str; of the
\* strings of this model only the AgentAction texts hold double quotes.
JsonEscape(s) ==
    CASE s = "{\"tool\": \"edit\"}" -> "{\\\"tool\\\": \\\"edit\\\"}"
      [] s = "{\"tool\": \"open\"}" -> "{\\\"tool\\\": \\\"open\\\"}"
      [] OTHER -> s
JsonStr(s) == "\"" \o JsonEscape(s) \o "\""
JsonValue(v) == IF v = None THEN "null" ELSE JsonStr(v)
JsonEntry(e) ==
    "{\"agent_action\": " \o JsonStr(e.agent_action) \o ", " \o
    ( IF e.field = "agent_output"
      THEN "\"agent_output\": {\"output\": " \o JsonValue(e.value) \o "}"
      ELSE "\"tool_output\": " \o JsonValue(e.value) ) \o "}"
RECURSIVE JsonJoin(_)
JsonJoin(texts) ==
    IF texts = <<>> THEN ""
    ELSE IF Len(texts) = 1 THEN texts[1]
    ELSE texts[1] \o ", " \o JsonJoin(Tail(texts))
JsonList(logs) == "[" \o JsonJoin([i \in 1..Len(logs) |-> JsonEntry(logs[i])]) \o "]"
\* json.dumps of a dict whose values are all the list logs; a None key is
\* written as "null".
JsonDumps(keys, logs) ==
    "{" \o JsonJoin([i \in 1..Len(keys) |->
                        (IF keys[i] = None THEN "\"null\"" ELSE JsonStr(keys[i]))
                            \o ": " \o JsonList(logs)]) \o "}"

\* dict item assignment: a new key goes last, an old key keeps its place.
DictSet(keys, k) ==
    IF \E i \in 1..Len(keys) : keys[i] = k THEN keys ELSE Append(keys, k)

\* A variant of save_history that writes the file before it updates agent_logs.
save_history_stale(keys, logs, instance_id, open_ok) ==
    [agent_logs |-> DictSet(keys, instance_id),
     error |-> IF open_ok THEN "none" ELSE "OSError",
     written |-> open_ok,
     content |-> JsonDumps(keys, logs)]

\* save_history(instance_id): agent_logs[instance_id] refers to current_logs,
\* then the file is opened for writing (open_ok: open returns) and
\* json.dumps(agent_logs) is written.
save_history(keys, logs, instance_id, open_ok) ==
    [agent_logs |-> DictSet(keys, instance_id),
     error |-> IF open_ok THEN "none" ELSE "OSError",
     written |-> open_ok,
     content |-> JsonDumps(DictSet(keys, instance_id), logs)]

(***************************************************************************)
(* CoderAgent.run, one action per blocking external call                   *)
(***************************************************************************)
\* The clone call of lines 195-202.
clone_call_main(ws, issue_config) ==
    [op |-> "CMDMANAGERTOOL_GITHUBCLONECMD", workspace_id |-> ws,
     repo_name |-> issue_config.repo_name, branch_name |-> "main"]

clone_call(ws, issue_config) ==
    [op |-> "CMDMANAGERTOOL_GITHUBCLONECMD", workspace_id |-> ws,
     repo_name |-> issue_config.repo_name,
     branch_name |-> issue_config.base_commit_id]

\* The constructors of lines 216-267 and the kickoff of line 269.
crew_calls ==
    << Call("Agent"), Call("Task"), Call("Agent"), Call("Task"), Call("Crew"),
       Call("Crew.kickoff") >>

\* No agent object exists yet.
InitAgentIdle ==
    /\ pc = "new"
    /\ args = NoArgs
    /\ error = "none"
    /\ calls = <<>>
    /\ llm = Absent
    /\ workspace_id = Absent
    /\ current_logs = <<>>
    /\ agent_logs = <<>>
    /\ file = Absent
    /\ writes = 0
    /\ steps = <<>>
    /\ runs = 0

Init ==
    /\ InitAgentIdle
    /\ IdleEdit

\* c_agent = CoderAgent(args)
Construct ==
    /\ pc = "new"
    /\ \E a \in ArgsSet, fail_at \in 0..Len(init_calls) :
         LET r == init(a, fail_at)
         IN  /\ args' = a
             /\ pc' = r.pc
             /\ error' = r.error
             /\ calls' = r.calls
    /\ UNCHANGED <<llm, workspace_id, current_logs, agent_logs, file, writes,
                   steps, runs>>
    /\ UNCHANGED edit_vars

\* c_agent.run() is called; it runs up to the return of get_llm (line 182).
RunGetLLM ==
    /\ pc \in {"ready", "done", "aborted"}
    /\ runs < MaxRuns
    /\ runs' = runs + 1
    /\ writes' = 0
    /\ workspace_id' = Absent
    /\ \E ctor_ok \in BOOLEAN :
         LET r == get_llm(args.model_env_config, ctor_ok)
         IN  /\ calls' = r.calls
             /\ llm' = r.llm
             /\ error' = r.error
             /\ pc' = IF r.error = "none" THEN "llm" ELSE "aborted"
    /\ UNCHANGED <<args, current_logs, agent_logs, file, steps>>
    /\ UNCHANGED edit_vars

\* Lines 190-193: the workspace is created, or the call raises.
RunCreateWorkspace ==
    /\ pc = "llm"
    /\ calls' = Append(calls, Call("LOCALWORKSPACE_CREATEWORKSPACEACTION"))
    /\ \/ /\ workspace_id' \in WorkspaceIds
          /\ pc' = "workspace"
          /\ error' = error
       \/ /\ workspace_id' = workspace_id
          /\ pc' = "aborted"
          /\ error' = "ExternalError"
    /\ UNCHANGED <<args, llm, current_logs, agent_logs, file, writes, steps, runs>>
    /\ UNCHANGED edit_vars

\* Lines 195-202: the repository is cloned, or the call raises.
RunClone ==
    /\ pc = "workspace"
    /\ calls' = Append(calls, clone_call(workspace_id, args))
    /\ \/ pc' = "cloned" /\ error' = error
       \/ pc' = "aborted" /\ error' = "ExternalError"
    /\ UNCHANGED <<args, llm, workspace_id, current_logs, agent_logs, file,
                   writes, steps, runs>>
    /\ UNCHANGED edit_vars

\* Lines 203-269: the prompts, the agents, the tasks and the crew are built
\* and crew.kickoff() is entered; fail_at is the constructor that raises.
RunKickoff ==
    /\ pc = "cloned"
    /\ \E fail_at \in 0..(Len(crew_calls) - 1) :
         IF fail_at = 0
         THEN calls' = calls \o crew_calls /\ pc' = "crew" /\ error' = error
         ELSE /\ calls' = calls \o SubSeq(crew_calls, 1, fail_at)
              /\ pc' = "aborted"
              /\ error' = "ExternalError"
    /\ UNCHANGED <<args, llm, workspace_id, current_logs, agent_logs, file,
                   writes, steps, runs>>
    /\ UNCHANGED edit_vars

\* The crew reports a step: step_callback=self.add_in_logs.  An error raised
\* by the callback propagates out of kickoff and out of run.
CrewStep ==
    /\ pc = "crew"
    /\ Len(steps) < MaxSteps
    /\ \E step \in StepOutputs :
         LET r == add_in_logs(current_logs, step)
         IN  /\ steps' = Append(steps, step)
             /\ current_logs' = r.logs
             /\ error' = r.error
             /\ pc' = IF r.error = "none" THEN "crew" ELSE "aborted"
    /\ UNCHANGED <<args, calls, llm, workspace_id, agent_logs, file, writes, runs>>
    /\ UNCHANGED edit_vars

\* A variant of run that saves the history in a finally clause.
CrewRaises_finally ==
    /\ pc = "crew"
    /\ pc' = "aborted"
    /\ error' = "ExternalError"
    /\ LET r == save_history(agent_logs, current_logs, args.issue_id, TRUE)
       IN  /\ agent_logs' = r.agent_logs
           /\ calls' = Append(calls, Call("open"))
           /\ file' = r.content
           /\ writes' = writes + 1
    /\ UNCHANGED <<args, llm, workspace_id, current_logs, steps, runs>>
    /\ UNCHANGED edit_vars

\* crew.kickoff() raises.
CrewRaises ==
    /\ pc = "crew"
    /\ pc' = "aborted"
    /\ error' = "ExternalError"
    /\ UNCHANGED <<args, calls, llm, workspace_id, current_logs, agent_logs, file,
                   writes, steps, runs>>
    /\ UNCHANGED edit_vars

\* crew.kickoff() returns and line 272 saves the history.
CrewReturns ==
    /\ pc = "crew"
    /\ \E open_ok \in BOOLEAN :
         LET r == save_history(agent_logs, current_logs, args.issue_id, open_ok)
         IN  /\ agent_logs' = r.agent_logs
             /\ calls' = Append(calls, Call("open"))
             /\ error' = r.error
             /\ pc' = IF r.written THEN "done" ELSE "aborted"
             /\ file' = IF r.written THEN r.content ELSE file
             /\ writes' = IF r.written THEN writes + 1 ELSE writes
    /\ UNCHANGED <<args, llm, workspace_id, current_logs, steps, runs>>
    /\ UNCHANGED edit_vars

Next ==
    \/ Construct
    \/ RunGetLLM
    \/ RunCreateWorkspace
    \/ RunClone
    \/ RunKickoff
    \/ CrewStep
    \/ CrewRaises
    \/ CrewReturns

Spec == Init /\ [][Next]_vars

(***************************************************************************)
(* EditFile alone: one call of execute for every request and every answer  *)
(* of the workspace; no agent object is involved.                          *)
(***************************************************************************)
InitEditFile == InitAgentIdle /\ InitEdit

\* execute runs to its return: _setup, the command, communicate, the response.
Execute ==
    /\ e_pc = "called"
    /\ LET r == execute(request, ws_answer)
       IN  /\ sent' = r.sent
           /\ response' = r.response
    /\ e_pc' = "returned"
    /\ UNCHANGED <<request, ws_answer>>
    /\ UNCHANGED agent_vars

\* workspace.communicate raises: execute has no handler, the error propagates
\* to the caller and nothing is returned.
ExecuteRaises ==
    /\ e_pc = "called"
    /\ sent' = execute(request, ws_answer).sent
    /\ response' = [result |-> "raised", output |-> "", return_code |-> 0]
    /\ e_pc' = "raised"
    /\ UNCHANGED <<request, ws_answer>>
    /\ UNCHANGED agent_vars

NextEdit ==
    \/ Execute
    \/ ExecuteRaises

SpecEdit == InitEditFile /\ [][NextEdit]_vars

(***************************************************************************)
(* Properties of CoderAgent, checked under Spec.                           *)
(***************************************************************************)
IsOp(c, ops) == c.op \in ops
Positions(ops) == {i \in 1..Len(calls) : IsOp(calls[i], ops)}
CreateOp == "LOCALWORKSPACE_CREATEWORKSPACEACTION"
CloneOp == "CMDMANAGERTOOL_GITHUBCLONECMD"
CrewOps == {"Agent", "Task", "Crew", "Crew.kickoff"}
KeyRecognized == args.model_env_config.model_env \in {MODEL_ENV_OPENAI, MODEL_ENV_AZURE}
IssueIdMissing == args.issue_id \in {None, ""}

\* C1: a run that an error of get_llm, of the workspace creation, of the
\* clone, of the agent/task/crew construction or of the crew execution has
\* aborted never reached save_history: the log file was not written by that
\* run, open was not called and agent_logs got no key.
C1_AbortedRunSavesNothing ==
    (pc = "aborted" /\ error # "OSError") =>
        /\ writes = 0
        /\ Positions({"open"}) = {}
        /\ (runs = 1 => file = Absent /\ agent_logs = <<>>)
\* A first run whose clone call raised.
C1_Witness ==
    /\ pc = "aborted"
    /\ error = "ExternalError"
    /\ runs = 1
    /\ calls # <<>>
    /\ calls[Len(calls)].op = CloneOp
    /\ file = Absent

\* The step_outputs that add_in_logs records, and the entry of each.
Recorded(step) ==
    \/ step.type = "AgentFinish"
    \/ /\ step.type = "list"
       /\ step.items # <<>>
       /\ step.items[1] # <<>>
       /\ step.items[1][1].type = "AgentAction"
EntryOf(step) ==
    IF step.type = "AgentFinish"
    THEN [agent_action |-> "agent_finish", field |-> "agent_output", value |-> step.ret]
    ELSE [agent_action |-> step.items[1][1].v, field |-> "tool_output",
          value |-> IF Len(step.items[1]) > 1 THEN step.items[1][2].v ELSE None]
ExpectedLog ==
    LET rec == SelectSeq(steps, Recorded)
    IN  [i \in 1..Len(rec) |-> EntryOf(rec[i])]

\* C2 as stated: after N calls of add_in_logs the session log holds exactly N
\* entries.
C2_Original == Len(current_logs) = Len(steps)
\* C2 as amended: the session log holds, in call order, exactly one entry for
\* each call whose step_output is an AgentFinish or a non-empty list whose
\* first tuple starts with an AgentAction, and nothing for any other call.
C2_LogIsRecordedStepsInOrder == current_logs = ExpectedLog
\* Two calls, both recorded, with different entries.
C2_Witness ==
    /\ Len(steps) = 2
    /\ Len(current_logs) = 2
    /\ current_logs[1] # current_logs[2]
    /\ current_logs[2].agent_action = "agent_finish"

\* C3 as stated: an agent object that was constructed has a recognized model
\* environment key and an issue identifier.
C3_Original ==
    pc \notin {"new", "ctor_failed"} => (KeyRecognized /\ ~IssueIdMissing)
\* C3 as amended: of the two configuration errors only the missing issue
\* identifier is raised by the constructor; an unrecognized model environment
\* key passes the constructor and is raised as a ValueError by get_llm, the
\* first step of run, before any external call of run.
C3_ConfigErrorsWhereRaised ==
    /\ (pc = "ctor_failed" /\ error = "ValueError") => IssueIdMissing
    /\ (IssueIdMissing /\ pc # "new") => (pc = "ctor_failed" /\ runs = 0)
    /\ (pc = "ready" /\ error = "none") => ~IssueIdMissing
    /\ (~KeyRecognized /\ runs > 0) =>
           (pc = "aborted" /\ error = "ValueError" /\ calls = <<>>)
\* An agent constructed with an unrecognized key, run not yet called.
C3_Witness ==
    /\ pc = "ready"
    /\ runs = 0
    /\ args.model_env_config.model_env = "anthropic"
    /\ calls = init_calls

\* C4: the constructor of an agent without an issue identifier raises before
\* it makes any external call.
C4_NoIssueIdFailsBeforeExternalCalls ==
    (IssueIdMissing /\ pc # "new") =>
        (pc = "ctor_failed" /\ error = "ValueError" /\ calls = <<>>)
C4_Witness ==
    pc = "ctor_failed" /\ args.issue_id = "" /\ calls = <<>>

\* C5: once the run is past the clone (and whenever an agent, a task or the
\* crew has been constructed or started) the run has issued exactly one
\* workspace-create call and then exactly one clone call, before every
\* agent/task/crew call; the clone carries the created workspace id, the
\* configured repo_name and branch_name = base_commit_id.
C5_OneCreateThenOneClone ==
    (pc \in {"cloned", "crew", "done"} \/ Positions(CrewOps) # {}) =>
        /\ Cardinality(Positions({CreateOp})) = 1
        /\ Cardinality(Positions({CloneOp})) = 1
        /\ \A i \in Positions({CreateOp}), j \in Positions({CloneOp}) :
             /\ i < j
             /\ \A k \in Positions(CrewOps) : j < k
             /\ calls[j].workspace_id = workspace_id
             /\ workspace_id \in WorkspaceIds
             /\ calls[j].repo_name = args.repo_name
             /\ calls[j].branch_name = args.base_commit_id
C5_Witness ==
    /\ pc = "done"
    /\ args.base_commit_id = "shubhra/linter"
    /\ workspace_id = "ws-2"
    /\ Positions(CrewOps) # {}

\* C6: a run writes the log file at most once, only as its last step after
\* crew.kickoff has returned, and a completed run has written it exactly
\* once; the text written is the JSON object that maps the issue_id to the
\* step log accumulated so far.
C6_SavedOnceAfterCrew ==
    /\ writes <= 1
    /\ writes = 1 => pc = "done"
    /\ pc = "done" =>
          /\ writes = 1
          /\ Len(calls) >= 2
          /\ calls[Len(calls)].op = "open"
          /\ calls[Len(calls) - 1].op = "Crew.kickoff"
          /\ Cardinality(Positions({"open"})) = 1
          /\ agent_logs = <<args.issue_id>>
          /\ file = JsonDumps(<<args.issue_id>>, current_logs)
\* A second completed run: the file holds the steps of both runs.
C6_Witness ==
    /\ pc = "done"
    /\ runs = 2
    /\ args.issue_id = "42"
    /\ file = "{\"42\": [{\"agent_action\": \"{\\\"tool\\\": \\\"edit\\\"}\", \"tool_output\": null}, {\"agent_action\": \"agent_finish\", \"agent_output\": {\"output\": \"done\"}}]}"

\* C7: with a model environment key that is neither "openai" nor "azure",
\* run ends in get_llm with a ValueError: no LLM client is constructed and no
\* workspace-create or clone call is issued.
C7_BadKeyFailsInGetLLM ==
    (~KeyRecognized /\ runs > 0) =>
        /\ pc = "aborted"
        /\ error = "ValueError"
        /\ llm = Absent
        /\ Positions({"ChatOpenAI", "AzureChatOpenAI", CreateOp, CloneOp}) = {}
C7_Witness ==
    /\ pc = "aborted"
    /\ runs = 1
    /\ args.model_env_config.model_env = Absent
    /\ error = "ValueError"

(***************************************************************************)
(* Properties of EditFile.execute, checked under SpecEdit.                 *)
(***************************************************************************)
IsDigit(c) == \E d \in 1..10 : Digit[d] = c
DigitVal(c) == (CHOOSE d \in 1..10 : Digit[d] = c) - 1
RECURSIVE ParseNat(_)
ParseNat(t) ==
    IF Len(t) = 1 THEN DigitVal(t[1])
    ELSE 10 * ParseNat(SubSeq(t, 1, Len(t) - 1)) + DigitVal(t[Len(t)])
IsIntText(t) ==
    LET d == IF t # <<>> /\ t[1] = "-" THEN Tail(t) ELSE t
    IN  d # <<>> /\ \A i \in 1..Len(d) : IsDigit(d[i])
\* int(text)
ParseInt(t) == IF t[1] = "-" THEN 0 - ParseNat(Tail(t)) ELSE ParseNat(t)

\* The command read back: its first line is "edit <S>:<E> << end_of_edit", the
\* text follows the newline and runs up to the closing "\nend_of_edit".
HeaderOf(cmd) == SplitLines(cmd)[1]
HeaderTail == heredoc_op \o end_of_edit
ColonOf(h) == CHOOSE i \in 1..Len(h) : h[i] = ":" /\ \A j \in 1..(i - 1) : h[j] # ":"
StartText(cmd) == SubSeq(HeaderOf(cmd), Len(edit_kw) + 1, ColonOf(HeaderOf(cmd)) - 1)
EndText(cmd) ==
    SubSeq(HeaderOf(cmd), ColonOf(HeaderOf(cmd)) + 1,
           Len(HeaderOf(cmd)) - Len(HeaderTail))
BodyOf(cmd) ==
    SubSeq(cmd, Len(HeaderOf(cmd)) + 2, Len(cmd) - Len(end_of_edit) - 1)

\* C8: the command sent holds the decimal text of start_line and of end_line
\* in its header and, between the header line and the closing marker, the
\* replacement_text character for character.
C8_CommandPreservesRequest ==
    e_pc = "returned" =>
        \A n \in 1..Len(sent) :
          LET cmd == sent[n]
              h == HeaderOf(cmd)
          IN  /\ SubSeq(h, 1, Len(edit_kw)) = edit_kw
              /\ \E i \in 1..Len(h) : h[i] = ":"
              /\ SubSeq(h, Len(h) - Len(HeaderTail) + 1, Len(h)) = HeaderTail
              /\ IsIntText(StartText(cmd))
              /\ IsIntText(EndText(cmd))
              /\ ParseInt(StartText(cmd)) = request.start_line
              /\ ParseInt(EndText(cmd)) = request.end_line
              /\ BodyOf(cmd) = request.replacement_text
              /\ SubSeq(cmd, Len(cmd) - Len(end_of_edit), Len(cmd))
                     = <<"\n">> \o end_of_edit
              /\ Len(cmd) = Len(h) + 1 + Len(request.replacement_text)
                                + 1 + Len(end_of_edit)
\* A request with a negative and a three-digit line number whose text starts
\* with a space and ends with a newline.
C8_Witness ==
    /\ e_pc = "returned"
    /\ request.start_line = -1
    /\ request.end_line = 123
    /\ request.replacement_text = <<" ", "x", "\n">>
    /\ Len(sent) = 1

\* C9: a call of execute that returns has passed exactly one command to
\* workspace.communicate, whatever the return code, and returns the
\* workspace's return code and output as the response.
C9_OneCommandNoRetry ==
    e_pc = "returned" =>
        /\ Len(sent) = 1
        /\ response.result = "returned"
        /\ response.return_code = ws_answer.return_code
        /\ response.output = ws_answer.output
\* The workspace rejected the edit.
C9_Witness ==
    /\ e_pc = "returned"
    /\ ws_answer.return_code = 1
    /\ ws_answer.output = "SyntaxError"
    /\ response.return_code = 1
    /\ Len(sent) = 1

\* The lines of the command after its header and before the first following
\* line that equals the marker: what a here-document reader takes as payload.
RECURSIVE UpToMarker(_)
UpToMarker(ls) ==
    IF ls = <<>> \/ Head(ls) = end_of_edit THEN <<>>
    ELSE <<Head(ls)>> \o UpToMarker(Tail(ls))
PayloadLines(cmd) == UpToMarker(Tail(SplitLines(cmd)))

\* C10: the lines between the header and the first following marker line are
\* exactly the lines of replacement_text.
C10_MarkersDelimitPayload ==
    e_pc = "returned" =>
        \A n \in 1..Len(sent) :
            PayloadLines(sent[n]) = SplitLines(request.replacement_text)

====
